---------------------------- MODULE Spec2Model ----------------------------
(*
  A model of npc_chat.py: the batch pipeline that sorts player messages by
  timestamp, keeps a mood and a three-message history per player, answers
  each message through the remote service or the rule-based fallback, and
  writes one log entry per message to the console and to the log file.

  Strings that the program searches, trims or lower-cases are sequences of
  one-character strings, so that substring tests, strip() and lower() are
  computed and not assumed.  A timestamp is a sequence of lexical pieces
  (whitespace, a date-time body, a UTC offset, the letter Z, anything else).
*)
EXTENDS Integers, Sequences, FiniteSets, TLC

(***************************************************************************)
(* Bounds of the explored inputs.                                          *)
(***************************************************************************)
MaxBatchOrder == 3
MaxBatchCtx == 4
MaxBatchFields == 3
MaxBatchRemote == 2
MaxBatchInterleave == 3

(***************************************************************************)
(* Program constants.                                                      *)
(***************************************************************************)
HISTORY_LEN == 3

model == "gpt-3.5-turbo"
npc_name == "Elya the Ranger"
NOTICE == [notice |-> "OpenAI not available - using rule-based fallback mode"]

HELP_KEYWORDS ==
    { <<"h", "e", "l", "p">>,
      <<"w", "h", "e", "r", "e">>,
      <<"h", "o", "w">>,
      <<"q", "u", "e", "s", "t">>,
      <<"p", "l", "e", "a", "s", "e">>,
      <<"a", "s", "s", "i", "s", "t">>,
      <<"l", "o", "s", "t">> }

INSULT_KEYWORDS ==
    { <<"s", "t", "u", "p", "i", "d">>,
      <<"i", "d", "i", "o", "t">>,
      <<"u", "s", "e", "l", "e", "s", "s">>,
      <<"d", "u", "m", "b">>,
      <<"h", "a", "t", "e">>,
      <<"s", "h", "u", "t", " ", "u", "p">> }

DEESCALATE_WORDS ==
    { <<"s", "o", "r", "r", "y">>,
      <<"p", "l", "e", "a", "s", "e">>,
      <<"t", "h", "a", "n", "k", "s">> }

DIRECTION_WORDS ==
    { <<"w", "h", "e", "r", "e">>,
      <<"g", "o">>,
      <<"q", "u", "e", "s", "t">> }

SORRY == <<"s", "o", "r", "r", "y">>

\* "Fine. Head east to the mill."
REPLY_ANGRY_SORRY ==
    <<"F", "i", "n", "e", ".", " ", "H", "e", "a", "d", " ", "e", "a", "s",
     "t", " ", "t", "o", " ", "t", "h", "e", " ", "m", "i", "l", "l", ".">>

\* "Make it quick. East road leads to the mill."
REPLY_ANGRY ==
    <<"M", "a", "k", "e", " ", "i", "t", " ", "q", "u", "i", "c", "k", ".",
     " ", "E", "a", "s", "t", " ", "r", "o", "a", "d", " ", "l", "e", "a",
     "d", "s", " ", "t", "o", " ", "t", "h", "e", " ", "m", "i", "l", "l",
     ".">>

\* "Follow the east road to the mill. The elder can help you!"
REPLY_FRIENDLY_DIRECTIONS ==
    <<"F", "o", "l", "l", "o", "w", " ", "t", "h", "e", " ", "e", "a", "s",
     "t", " ", "r", "o", "a", "d", " ", "t", "o", " ", "t", "h", "e", " ",
     "m", "i", "l", "l", ".", " ", "T", "h", "e", " ", "e", "l", "d", "e",
     "r", " ", "c", "a", "n", " ", "h", "e", "l", "p", " ", "y", "o", "u",
     "!">>

\* "How can I help you today?"
REPLY_FRIENDLY ==
    <<"H", "o", "w", " ", "c", "a", "n", " ", "I", " ", "h", "e", "l", "p",
     " ", "y", "o", "u", " ", "t", "o", "d", "a", "y", "?">>

\* "East road goes to the mill. Village center is by the well."
REPLY_NEUTRAL_DIRECTIONS ==
    <<"E", "a", "s", "t", " ", "r", "o", "a", "d", " ", "g", "o", "e", "s",
     " ", "t", "o", " ", "t", "h", "e", " ", "m", "i", "l", "l", ".", " ",
     "V", "i", "l", "l", "a", "g", "e", " ", "c", "e", "n", "t", "e", "r",
     " ", "i", "s", " ", "b", "y", " ", "t", "h", "e", " ", "w", "e", "l",
     "l", ".">>

\* "What do you need? I can offer directions or information."
REPLY_NEUTRAL ==
    <<"W", "h", "a", "t", " ", "d", "o", " ", "y", "o", "u", " ", "n", "e",
     "e", "d", "?", " ", "I", " ", "c", "a", "n", " ", "o", "f", "f", "e",
     "r", " ", "d", "i", "r", "e", "c", "t", "i", "o", "n", "s", " ", "o",
     "r", " ", "i", "n", "f", "o", "r", "m", "a", "t", "i", "o", "n", ".">>

(***************************************************************************)
(* Message texts the inputs are drawn from.                                *)
(***************************************************************************)
\* "hello"
TxtHello ==
    <<"h", "e", "l", "l", "o">>

\* "Sorry"
TxtSorry ==
    <<"S", "o", "r", "r", "y">>

\* "thanks"
TxtThanks ==
    <<"t", "h", "a", "n", "k", "s">>

\* "You idiot"
TxtIdiot ==
    <<"Y", "o", "u", " ", "i", "d", "i", "o", "t">>

\* "Sorry, please help"
TxtSorryHelp ==
    <<"S", "o", "r", "r", "y", ",", " ", "p", "l", "e", "a", "s", "e", " ",
     "h", "e", "l", "p">>

\* "Sorry you idiot"
TxtSorryIdiot ==
    <<"S", "o", "r", "r", "y", " ", "y", "o", "u", " ", "i", "d", "i", "o",
     "t">>

\* "Where do I find the mill?"
TxtWhere ==
    <<"W", "h", "e", "r", "e", " ", "d", "o", " ", "I", " ", "f", "i", "n",
     "d", " ", "t", "h", "e", " ", "m", "i", "l", "l", "?">>

\* "ok?"
TxtOk ==
    <<"o", "k", "?">>

\* "whatever"
TxtWhatever ==
    <<"w", "h", "a", "t", "e", "v", "e", "r">>

\* "good"
TxtGood ==
    <<"g", "o", "o", "d">>

\* "SHUT UP"
TxtShutUp ==
    <<"S", "H", "U", "T", " ", "U", "P">>

\* "stupid quest?"
TxtStupidQuest ==
    <<"s", "t", "u", "p", "i", "d", " ", "q", "u", "e", "s", "t", "?">>

\* "You're so stupid and useless"
TxtStupidUseless ==
    <<"Y", "o", "u", "'", "r", "e", " ", "s", "o", " ", "s", "t", "u", "p",
     "i", "d", " ", "a", "n", "d", " ", "u", "s", "e", "l", "e", "s", "s">>

\* "Sorry, good day"
TxtSorryGood ==
    <<"S", "o", "r", "r", "y", ",", " ", "g", "o", "o", "d", " ", "d", "a",
     "y">>

\* "bye"
TxtBye ==
    <<"b", "y", "e">>

\* ""
TxtEmpty == <<>>

AllTexts ==
    { TxtHello, TxtSorry, TxtThanks, TxtIdiot, TxtSorryHelp, TxtSorryIdiot,
      TxtWhere, TxtOk, TxtWhatever, TxtGood, TxtShutUp, TxtStupidQuest,
      TxtStupidUseless, TxtSorryGood, TxtBye, TxtEmpty }

Moods == {"neutral", "friendly", "angry"}

(***************************************************************************)
(* String helpers: str.lower, the `in` substring test, str.endswith,       *)
(* str.strip and the [-n:] slice.                                          *)
(***************************************************************************)
UPPER_TO_LOWER ==
    ("A" :> "a" @@ "B" :> "b" @@ "C" :> "c" @@ "D" :> "d" @@ "E" :> "e") @@
    ("F" :> "f" @@ "G" :> "g" @@ "H" :> "h" @@ "I" :> "i" @@ "J" :> "j") @@
    ("K" :> "k" @@ "L" :> "l" @@ "M" :> "m" @@ "N" :> "n" @@ "O" :> "o") @@
    ("P" :> "p" @@ "Q" :> "q" @@ "R" :> "r" @@ "S" :> "s" @@ "T" :> "t") @@
    ("U" :> "u" @@ "V" :> "v" @@ "W" :> "w" @@ "X" :> "x" @@ "Y" :> "y") @@
    ("Z" :> "z")

Lower(s) ==
    [k \in DOMAIN s |->
        IF s[k] \in DOMAIN UPPER_TO_LOWER THEN UPPER_TO_LOWER[s[k]] ELSE s[k]]

\* word occurs in s at some offset k.
Contains(word, s) ==
    \E k \in 0..(Len(s) - Len(word)) :
        \A j \in 1..Len(word) : s[k + j] = word[j]

ContainsAny(words, s) == \E w \in words : Contains(w, s)

EndsWith(s, c) == Len(s) > 0 /\ s[Len(s)] = c

WHITESPACE == {" ", "\t", "\n"}

RECURSIVE LStrip(_)
LStrip(s) ==
    IF s # <<>> /\ Head(s) \in WHITESPACE THEN LStrip(Tail(s)) ELSE s

RECURSIVE RStrip(_)
RStrip(s) ==
    IF s # <<>> /\ s[Len(s)] \in WHITESPACE
    THEN RStrip(SubSeq(s, 1, Len(s) - 1))
    ELSE s

Strip(s) == RStrip(LStrip(s))

LastN(s, n) == IF Len(s) <= n THEN s ELSE SubSeq(s, Len(s) - n + 1, Len(s))

(***************************************************************************)
(* Timestamps.  A raw timestamp is a sequence of pieces; datetime values   *)
(* are minutes of the day, naive or aware (carrying a UTC offset).         *)
(***************************************************************************)
DATETIME_MINUTES ==
    ("2024-01-01T09:00:00" :> 540) @@
    ("2024-01-01T10:00:00" :> 600) @@
    ("2024-01-01T11:00:00" :> 660)

OFFSET_MINUTES == ("+00:00" :> 0) @@ ("+01:00" :> 60)

NO_DATETIME == [ok |-> FALSE, aware |-> FALSE, minutes |-> 0]

\* datetime.fromisoformat: a date-time body, optionally followed by an offset.
\* An aware value is kept as its UTC instant, which is what aware datetimes
\* are compared by.
fromisoformat(s) ==
    IF Len(s) = 1 /\ s[1] \in DOMAIN DATETIME_MINUTES
    THEN [ok |-> TRUE, aware |-> FALSE, minutes |-> DATETIME_MINUTES[s[1]]]
    ELSE IF /\ Len(s) = 2
            /\ s[1] \in DOMAIN DATETIME_MINUTES
            /\ s[2] \in DOMAIN OFFSET_MINUTES
    THEN [ok |-> TRUE, aware |-> TRUE,
          minutes |-> DATETIME_MINUTES[s[1]] - OFFSET_MINUTES[s[2]]]
    ELSE NO_DATETIME

\* ts.strip().replace("Z", "+00:00"), then fromisoformat.
parse_timestamp(ts) ==
    LET stripped == Strip(ts)
        replaced == [k \in DOMAIN stripped |->
                        IF stripped[k] = "Z" THEN "+00:00" ELSE stripped[k]]
    IN  fromisoformat(replaced)

(***************************************************************************)
(* update_mood: first matching rule wins.                                  *)
(***************************************************************************)
update_mood_no_deescalation(text, current_mood) ==
    LET text_lower == Lower(text) IN
    IF ContainsAny(INSULT_KEYWORDS, text_lower)
    THEN <<"angry", "insult_detected">>
    ELSE IF ContainsAny(HELP_KEYWORDS, text_lower) \/ EndsWith(text_lower, "?")
    THEN <<"friendly", "help_or_question">>
    ELSE <<current_mood, "no_change">>

update_mood_help_first(text, current_mood) ==
    LET text_lower == Lower(text) IN
    IF ContainsAny(HELP_KEYWORDS, text_lower) \/ EndsWith(text_lower, "?")
    THEN <<"friendly", "help_or_question">>
    ELSE IF ContainsAny(INSULT_KEYWORDS, text_lower)
    THEN <<"angry", "insult_detected">>
    ELSE IF current_mood = "angry" /\ ContainsAny(DEESCALATE_WORDS, text_lower)
    THEN <<"neutral", "deescalated">>
    ELSE <<current_mood, "no_change">>

update_mood_deescalate_first(text, current_mood) ==
    LET text_lower == Lower(text) IN
    IF current_mood = "angry" /\ ContainsAny(DEESCALATE_WORDS, text_lower)
    THEN <<"neutral", "deescalated">>
    ELSE IF ContainsAny(INSULT_KEYWORDS, text_lower)
    THEN <<"angry", "insult_detected">>
    ELSE IF ContainsAny(HELP_KEYWORDS, text_lower) \/ EndsWith(text_lower, "?")
    THEN <<"friendly", "help_or_question">>
    ELSE <<current_mood, "no_change">>

update_mood(text, current_mood) ==
    LET text_lower == Lower(text) IN
    IF ContainsAny(INSULT_KEYWORDS, text_lower)
    THEN <<"angry", "insult_detected">>
    ELSE IF ContainsAny(HELP_KEYWORDS, text_lower) \/ EndsWith(text_lower, "?")
    THEN <<"friendly", "help_or_question">>
    ELSE IF current_mood = "angry" /\ ContainsAny(DEESCALATE_WORDS, text_lower)
    THEN <<"neutral", "deescalated">>
    ELSE <<current_mood, "no_change">>

(***************************************************************************)
(* rule_based_reply: the fallback reply table.                             *)
(***************************************************************************)
rule_based_reply_case_sensitive(mood, text) ==
    IF mood = "angry"
    THEN IF Contains(SORRY, text) THEN REPLY_ANGRY_SORRY ELSE REPLY_ANGRY
    ELSE IF mood = "friendly"
    THEN IF ContainsAny(DIRECTION_WORDS, text)
         THEN REPLY_FRIENDLY_DIRECTIONS
         ELSE REPLY_FRIENDLY
    ELSE IF ContainsAny(DIRECTION_WORDS, text)
         THEN REPLY_NEUTRAL_DIRECTIONS
         ELSE REPLY_NEUTRAL

rule_based_reply(mood, text) ==
    LET text_lower == Lower(text) IN
    IF mood = "angry"
    THEN IF Contains(SORRY, text_lower) THEN REPLY_ANGRY_SORRY ELSE REPLY_ANGRY
    ELSE IF mood = "friendly"
    THEN IF ContainsAny(DIRECTION_WORDS, text_lower)
         THEN REPLY_FRIENDLY_DIRECTIONS
         ELSE REPLY_FRIENDLY
    ELSE IF ContainsAny(DIRECTION_WORDS, text_lower)
         THEN REPLY_NEUTRAL_DIRECTIONS
         ELSE REPLY_NEUTRAL

\* build_messages: the request sent to the service.  The system prompt is
\* determined by the NPC name and the mood; the history turn is present only
\* when the history is not empty.
build_messages(name, mood, history, current_text) ==
    <<[role |-> "system", name |-> name, mood |-> mood]>>
    \o (IF history # <<>> THEN <<[role |-> "user", context |-> history]>>
        ELSE <<>>)
    \o <<[role |-> "user", content |-> current_text]>>

(***************************************************************************)
(* list.sort(key=...): the keys are computed for every element first, then *)
(* the elements are ordered by `<` on the keys, stably.                    *)
(***************************************************************************)
SortKey(m) == parse_timestamp(m.timestamp)

KeyFailsWhenMissing(m) == "timestamp" \notin DOMAIN m

\* Computing the key of m raises (KeyError, ValueError).
KeyFails(m) == "timestamp" \notin DOMAIN m \/ ~SortKey(m).ok

\* Comparing a naive with an aware datetime raises TypeError.
Comparable(msgs) ==
    \A a, b \in DOMAIN msgs : SortKey(msgs[a]).aware = SortKey(msgs[b]).aware

KeyLess(a, b) == SortKey(a).minutes < SortKey(b).minutes

RECURSIVE InsertBeforeEqual(_, _)
InsertBeforeEqual(m, sorted) ==
    IF sorted = <<>> THEN <<m>>
    ELSE IF ~KeyLess(Head(sorted), m) THEN <<m>> \o sorted
    ELSE <<Head(sorted)>> \o InsertBeforeEqual(m, Tail(sorted))

\* m goes after every element that is not greater than it.
RECURSIVE InsertSorted(_, _)
InsertSorted(m, sorted) ==
    IF sorted = <<>> THEN <<m>>
    ELSE IF KeyLess(m, Head(sorted)) THEN <<m>> \o sorted
    ELSE <<Head(sorted)>> \o InsertSorted(m, Tail(sorted))

RECURSIVE StableSort(_)
StableSort(msgs) ==
    IF msgs = <<>> THEN <<>>
    ELSE InsertSorted(msgs[Len(msgs)], StableSort(SubSeq(msgs, 1, Len(msgs) - 1)))

(***************************************************************************)
(* State.                                                                  *)
(***************************************************************************)
VARIABLES
    environment,       \* what the process finds installed and configured
    input,             \* the message list in the input file
    log_file,          \* TRUE when a log file path is given
    OPENAI_AVAILABLE,  \* the module flag set by the guarded import
    pc,                \* position in the module, main or process_messages
    messages,          \* the loaded list; sorted in place
    i,                 \* number of messages the loop has taken
    player_states,     \* player_id -> [mood, last_messages]
    context,           \* locals of the loop body
    reason,
    reply,
    source,
    log_handle,        \* "none", "open" or "closed"
    file,              \* lines in the log file
    console,           \* lines printed to standard output
    requests,          \* requests received by the remote service
    responses          \* what the service did with each request

vars ==
    <<environment, input, log_file, OPENAI_AVAILABLE, pc, messages, i, player_states,
      context, reason, reply, source, log_handle, file, console, requests,
      responses>>

Players == {1, 2}

PlayerStateAngry == [mood |-> "angry", last_messages |-> <<>>]

PlayerState == [mood |-> "neutral", last_messages |-> <<>>]

NoPlayers == [p \in {} |-> PlayerState]

BoundedSeq(S, n) == UNION {[1..k -> S] : k \in 0..n}

T09 == "2024-01-01T09:00:00"
T10 == "2024-01-01T10:00:00"
T11 == "2024-01-01T11:00:00"

STAMP_10Z == <<T10, "Z">>

\* Raw timestamps: three spellings of instants (two of them the same
\* instant), a naive one and one that is no timestamp.
OrderStamps ==
    { STAMP_10Z, <<T11, "+01:00">>, <<" ", T09, "Z", " ">>, <<T10>>,
      <<"not-a-date">> }

Msg(p, t, ts) == [player_id |-> p, text |-> t, timestamp |-> ts]

\* Batches that differ in their timestamps.
OrderBatches ==
    BoundedSeq({Msg(p, TxtHello, ts) : p \in Players, ts \in OrderStamps},
               MaxBatchOrder)

\* Batches that differ in who says what, all at one instant.
CtxTexts == {TxtIdiot, TxtSorry, TxtHello}

CtxBatches ==
    BoundedSeq({Msg(p, t, STAMP_10Z) : p \in Players, t \in CtxTexts},
               MaxBatchCtx)

\* Batches in which a message may lack a field.
FieldMsgs ==
    { Msg(1, TxtHello, STAMP_10Z),
      Msg(2, TxtSorry, <<T09, "Z">>),
      [text |-> TxtHello, timestamp |-> STAMP_10Z],
      [player_id |-> 1, timestamp |-> STAMP_10Z],
      [player_id |-> 1, text |-> TxtHello] }

FieldBatches == BoundedSeq(FieldMsgs, MaxBatchFields)

\* Batches answered with the remote service present or absent.
RemoteTexts == {TxtIdiot, TxtSorry, TxtWhere}

RemoteBatches ==
    BoundedSeq({Msg(1, t, STAMP_10Z) : t \in RemoteTexts}, MaxBatchRemote)

\* Batches of two players whose messages differ in text and in instant.
InterleaveBatches ==
    BoundedSeq({Msg(p, t, ts) : p \in Players, t \in {TxtIdiot, TxtSorry},
                                ts \in {<<T09, "Z">>, STAMP_10Z}},
               MaxBatchInterleave)

\* One player: messages that set each mood, then any text.
MoodSetters == {TxtBye, TxtOk, TxtIdiot}

MoodBatches ==
    { <<Msg(1, a, STAMP_10Z), Msg(1, b, STAMP_10Z)>> :
        a \in MoodSetters, b \in AllTexts }

\* What the remote call can do: raise, answer without content, or answer
\* with a text.
REMOTE_CONTENTS ==
    { <<" ", "H", "i", "!", "\n">>, <<" ", " ">>, <<>> }

RemoteOutcomes ==
    { [kind |-> "raise", content |-> <<>>],
      [kind |-> "none", content |-> <<>>] }
    \cup { [kind |-> "text", content |-> c] : c \in REMOTE_CONTENTS }

\* A call made without a key is rejected.
OutcomesFor(env) ==
    IF env.api_key THEN RemoteOutcomes
    ELSE {[kind |-> "raise", content |-> <<>>]}

NO_CALL == [kind |-> "no call", content |-> <<>>]

\* Whether openai and dotenv can be imported, and whether OPENAI_API_KEY is
\* set once load_dotenv has run.
Environments == [openai_installed : BOOLEAN, api_key : BOOLEAN]

NO_OPENAI == [openai_installed |-> FALSE, api_key |-> FALSE]

InitWith(batches, logs, environments) ==
    /\ environment \in environments
    /\ input \in batches
    /\ log_file \in logs
    /\ OPENAI_AVAILABLE = FALSE
    /\ pc = "import"
    /\ messages = <<>>
    /\ i = 0
    /\ player_states = NoPlayers
    /\ context = <<>>
    /\ reason = ""
    /\ reply = <<>>
    /\ source = <<>>
    /\ log_handle = "none"
    /\ file = <<>>
    /\ console = <<>>
    /\ requests = <<>>
    /\ responses = <<>>

Init ==
    \/ InitWith(OrderBatches, {TRUE}, {NO_OPENAI})
    \/ InitWith(CtxBatches, {TRUE}, {NO_OPENAI})
    \/ InitWith(FieldBatches, BOOLEAN, {NO_OPENAI})
    \/ InitWith(RemoteBatches, BOOLEAN, Environments)
    \/ InitWith(MoodBatches, {FALSE}, {NO_OPENAI})
    \/ InitWith(InterleaveBatches, {FALSE}, {NO_OPENAI})

(***************************************************************************)
(* The module body, main and process_messages, one action per step.        *)
(***************************************************************************)
\* The guarded import: when both packages import, the flag is set and then
\* the client is built from the key in the environment; only ImportError is
\* caught.  Building the client without a key is the library's business: it
\* may raise, which ends the process before main, or return a client.
ImportModule ==
    /\ pc = "import"
    /\ IF environment.openai_installed
       THEN /\ OPENAI_AVAILABLE' = TRUE
            /\ \E built \in (IF environment.api_key THEN {TRUE} ELSE BOOLEAN) :
                  pc' = IF built THEN "main" ELSE "crashed"
       ELSE /\ OPENAI_AVAILABLE' = FALSE
            /\ pc' = "main"
    /\ UNCHANGED <<environment, input, log_file, messages, i, player_states,
                   context, reason, reply, source, log_handle, file, console,
                   requests, responses>>

\* main: announce the fallback mode, then call process_messages.
Main ==
    /\ pc = "main"
    /\ console' = IF ~OPENAI_AVAILABLE THEN Append(console, NOTICE) ELSE console
    /\ pc' = "load"
    /\ UNCHANGED <<environment, input, log_file, OPENAI_AVAILABLE, messages, i,
                   player_states, context, reason, reply, source, log_handle,
                   file, requests, responses>>

\* json.load: the list of message objects, each with its own identity (its
\* position in the file).
LoadMessages ==
    /\ pc = "load"
    /\ messages' = [k \in DOMAIN input |-> input[k] @@ ("pos" :> k)]
    /\ pc' = "sort"
    /\ UNCHANGED <<environment, input, log_file, OPENAI_AVAILABLE, i, player_states,
                   context, reason, reply, source, log_handle, file, console,
                   requests, responses>>

\* messages.sort(key=...): raises when a key cannot be computed or two keys
\* cannot be compared, and then nothing after it runs.
SortMessages ==
    /\ pc = "sort"
    /\ IF \E k \in DOMAIN messages : KeyFails(messages[k])
       THEN pc' = "aborted" /\ UNCHANGED messages
       ELSE IF ~Comparable(messages)
       THEN pc' = "aborted" /\ UNCHANGED messages
       ELSE pc' = "open" /\ messages' = StableSort(messages)
    /\ UNCHANGED <<environment, input, log_file, OPENAI_AVAILABLE, i, player_states,
                   context, reason, reply, source, log_handle, file, console,
                   requests, responses>>

\* player_states = {}; create the directory and open the log file for
\* writing (either of which may raise), or leave the handle None.
OpenLog ==
    /\ pc = "open"
    /\ player_states' = NoPlayers
    /\ IF log_file
       THEN \E ok \in BOOLEAN :
                IF ok
                THEN log_handle' = "open" /\ file' = <<>> /\ pc' = "loop"
                ELSE pc' = "aborted" /\ UNCHANGED <<log_handle, file>>
       ELSE log_handle' = "none" /\ pc' = "loop" /\ UNCHANGED file
    /\ UNCHANGED <<environment, input, log_file, OPENAI_AVAILABLE, messages, i, context,
                   reason, reply, source, console, requests, responses>>

msg == messages[i]

FetchMessageSnapshotLate ==
    /\ pc = "loop"
    /\ i < Len(messages)
    /\ LET m == messages[i + 1] IN
       IF {"player_id", "text", "timestamp"} \subseteq DOMAIN m
       THEN LET states == IF m.player_id \in DOMAIN player_states
                          THEN player_states
                          ELSE player_states @@ (m.player_id :> PlayerState)
            IN  /\ i' = i + 1
                /\ player_states' = states
                /\ context' = LastN(Append(states[m.player_id].last_messages,
                                           m.text), HISTORY_LEN)
                /\ pc' = "mood"
       ELSE /\ pc' = "aborted"
            /\ UNCHANGED <<i, player_states, context>>
    /\ UNCHANGED <<environment, input, log_file, OPENAI_AVAILABLE, messages, reason, reply,
                   source, log_handle, file, console, requests,
                   responses>>

\* for msg in messages: read the three fields (a missing one raises
\* KeyError), get or create the player's state, snapshot the context.
FetchMessage ==
    /\ pc = "loop"
    /\ i < Len(messages)
    /\ LET m == messages[i + 1] IN
       IF {"player_id", "text", "timestamp"} \subseteq DOMAIN m
       THEN LET states == IF m.player_id \in DOMAIN player_states
                          THEN player_states
                          ELSE player_states @@ (m.player_id :> PlayerState)
            IN  /\ i' = i + 1
                /\ player_states' = states
                /\ context' = LastN(states[m.player_id].last_messages,
                                    HISTORY_LEN)
                /\ pc' = "mood"
       ELSE /\ pc' = "aborted"
            /\ UNCHANGED <<i, player_states, context>>
    /\ UNCHANGED <<environment, input, log_file, OPENAI_AVAILABLE, messages, reason, reply,
                   source, log_handle, file, console, requests,
                   responses>>

UpdateMoodFromDefault ==
    /\ pc = "mood"
    /\ LET r == update_mood(msg.text, PlayerState.mood) IN
       /\ player_states' =
              [player_states EXCEPT ![msg.player_id].mood = r[1]]
       /\ reason' = r[2]
    /\ pc' = "reply"
    /\ UNCHANGED <<environment, input, log_file, OPENAI_AVAILABLE, messages, i,
                   context, reply, source, log_handle, file, console, requests,
                   responses>>

UpdateMoodShared ==
    /\ pc = "mood"
    /\ LET r == update_mood(msg.text, player_states[msg.player_id].mood) IN
       /\ player_states' =
              [p \in DOMAIN player_states |->
                  [player_states[p] EXCEPT !.mood = r[1]]]
       /\ reason' = r[2]
    /\ pc' = "reply"
    /\ UNCHANGED <<environment, input, log_file, OPENAI_AVAILABLE, messages, i, context,
                   reply, source, log_handle, file, console, requests,
                   responses>>

\* new_mood, reason = update_mood(text, state.mood); state.mood = new_mood
UpdateMood ==
    /\ pc = "mood"
    /\ LET r == update_mood(msg.text, player_states[msg.player_id].mood) IN
       /\ player_states' =
              [player_states EXCEPT ![msg.player_id].mood = r[1]]
       /\ reason' = r[2]
    /\ pc' = "reply"
    /\ UNCHANGED <<environment, input, log_file, OPENAI_AVAILABLE, messages, i, context,
                   reply, source, log_handle, file, console, requests,
                   responses>>

\* generate_reply, given what the remote call did (`out`; NO_CALL when there
\* is no client): the stripped text of an answer, tagged with the model;
\* otherwise (no client, or the call or the reading of its content raised)
\* the rule-based reply, tagged "fallback".
generate_reply_untrimmed(name, mood, history, text, mdl, out) ==
    IF out.kind = "text"
    THEN <<out.content, <<"openai", mdl>>>>
    ELSE <<rule_based_reply(mood, text), <<"fallback">>>>

generate_reply_fallback_mistagged(name, mood, history, text, mdl, out) ==
    IF out.kind = "text"
    THEN <<Strip(out.content), <<"openai", mdl>>>>
    ELSE <<rule_based_reply(mood, text), <<"openai", mdl>>>>

generate_reply(name, mood, history, text, mdl, out) ==
    IF out.kind = "text"
    THEN <<Strip(out.content), <<"openai", mdl>>>>
    ELSE <<rule_based_reply(mood, text), <<"fallback">>>>

\* reply, source = generate_reply(npc_name, state.mood, context, text, model)
\* The service receives one request when the client exists.
GenerateReply ==
    /\ pc = "reply"
    /\ LET mood == player_states[msg.player_id].mood IN
       \E out \in IF OPENAI_AVAILABLE THEN OutcomesFor(environment)
                  ELSE {NO_CALL} :
          LET r == generate_reply(npc_name, mood, context, msg.text, model, out)
          IN  /\ reply' = r[1]
              /\ source' = r[2]
              /\ IF OPENAI_AVAILABLE
                 THEN /\ requests' = Append(requests,
                             [model |-> model,
                              messages |-> build_messages(npc_name, mood,
                                                          context, msg.text)])
                      /\ responses' = Append(responses, out)
                 ELSE UNCHANGED <<requests, responses>>
    /\ pc' = "append"
    /\ UNCHANGED <<environment, input, log_file, OPENAI_AVAILABLE, messages, i,
                   player_states, context, reason, log_handle, file, console>>

\* last_messages.append(text); if longer than three, last_messages[-3:]
append_text_keep_first(last_messages, text) ==
    LET appended == Append(last_messages, text) IN
    IF Len(appended) > HISTORY_LEN
    THEN SubSeq(appended, 1, HISTORY_LEN)
    ELSE appended

append_text(last_messages, text) ==
    LET appended == Append(last_messages, text) IN
    IF Len(appended) > HISTORY_LEN
    THEN LastN(appended, HISTORY_LEN)
    ELSE appended

AppendHistory ==
    /\ pc = "append"
    /\ player_states' =
           [player_states EXCEPT ![msg.player_id].last_messages =
                append_text(@, msg.text)]
    /\ pc' = "print"
    /\ UNCHANGED <<environment, input, log_file, OPENAI_AVAILABLE, messages, i, context,
                   reason, reply, source, log_handle, file, console, requests,
                   responses>>

log_entry ==
    [player_id |-> msg.player_id,
     timestamp |-> msg.timestamp,
     message_text |-> msg.text,
     npc_reply |-> reply,
     state_used |-> context,
     npc_mood |-> player_states[msg.player_id].mood,
     mood_reason |-> reason,
     model_source |-> source,
     npc_name |-> npc_name]

\* print(json.dumps(log_entry))
PrintEntry ==
    /\ pc = "print"
    /\ console' = Append(console, log_entry)
    /\ pc' = "write"
    /\ UNCHANGED <<environment, input, log_file, OPENAI_AVAILABLE, messages, i,
                   player_states, context, reason, reply, source, log_handle,
                   file, requests, responses>>

WriteEntryDropsOnError ==
    /\ pc = "write"
    /\ IF log_handle = "open"
       THEN \E ok \in BOOLEAN :
                IF ok
                THEN file' = Append(file, log_entry) /\ pc' = "loop"
                ELSE pc' = "loop" /\ UNCHANGED file
       ELSE pc' = "loop" /\ UNCHANGED file
    /\ UNCHANGED <<environment, input, log_file, OPENAI_AVAILABLE, messages, i,
                   player_states, context, reason, reply, source, log_handle,
                   console, requests, responses>>

\* if log_handle: log_handle.write(...), which may raise.
WriteEntry ==
    /\ pc = "write"
    /\ IF log_handle = "open"
       THEN \E ok \in BOOLEAN :
                IF ok
                THEN file' = Append(file, log_entry) /\ pc' = "loop"
                ELSE pc' = "aborted" /\ UNCHANGED file
       ELSE pc' = "loop" /\ UNCHANGED file
    /\ UNCHANGED <<environment, input, log_file, OPENAI_AVAILABLE, messages, i,
                   player_states, context, reason, reply, source, log_handle,
                   console, requests, responses>>

\* After the loop: if log_handle: log_handle.close()
CloseLog ==
    /\ pc = "loop"
    /\ i = Len(messages)
    /\ log_handle' = IF log_handle = "open" THEN "closed" ELSE log_handle
    /\ pc' = "done"
    /\ UNCHANGED <<environment, input, log_file, OPENAI_AVAILABLE, messages, i,
                   player_states, context, reason, reply, source, file,
                   console, requests, responses>>

Next ==
    \/ ImportModule
    \/ Main
    \/ LoadMessages
    \/ SortMessages
    \/ OpenLog
    \/ FetchMessage
    \/ UpdateMood
    \/ GenerateReply
    \/ AppendHistory
    \/ PrintEntry
    \/ WriteEntry
    \/ CloseLog

Spec == Init /\ [][Next]_vars

(***************************************************************************)
(* rule_based_reply on its own: one call with any mood, one of them none   *)
(* of the three, and any text.                                             *)
(***************************************************************************)
ReplyMoods == Moods \cup {"grumpy"}

InitReply ==
    /\ environment = NO_OPENAI
    /\ input \in {<<Msg(1, t, STAMP_10Z)>> : t \in AllTexts}
    /\ log_file = FALSE
    /\ OPENAI_AVAILABLE = FALSE
    /\ pc = "rule_based_reply"
    /\ messages = [k \in DOMAIN input |-> input[k] @@ ("pos" :> k)]
    /\ i = 1
    /\ player_states \in
          {(1 :> [mood |-> m, last_messages |-> <<>>]) : m \in ReplyMoods}
    /\ context = <<>>
    /\ reason = ""
    /\ reply = <<>>
    /\ source = <<>>
    /\ log_handle = "none"
    /\ file = <<>>
    /\ console = <<>>
    /\ requests = <<>>
    /\ responses = <<>>

CallRuleBasedReply ==
    /\ pc = "rule_based_reply"
    /\ reply' = rule_based_reply(player_states[msg.player_id].mood, msg.text)
    /\ pc' = "returned"
    /\ UNCHANGED <<environment, input, log_file, OPENAI_AVAILABLE, messages, i,
                   player_states, context, reason, source, log_handle, file,
                   console, requests, responses>>

NextReply == CallRuleBasedReply

SpecReply == InitReply /\ [][NextReply]_vars

(***************************************************************************)
(* Properties.                                                             *)
(***************************************************************************)
IsLogEntry(line) == "npc_reply" \in DOMAIN line

\* The log entries printed so far, in order.
Records == SelectSeq(console, IsLogEntry)

HasAllFields(m) == {"player_id", "text", "timestamp"} \subseteq DOMAIN m

Instant(ts) == parse_timestamp(ts).minutes

\* The entries before the k-th that belong to the k-th entry's player.
EarlierOf(k) == {j \in 1..(k - 1) : Records[j].player_id = Records[k].player_id}

\* The player's mood when the k-th entry's message arrived.
MoodBefore(k) ==
    IF EarlierOf(k) = {} THEN "neutral"
    ELSE Records[CHOOSE j \in EarlierOf(k) : \A h \in EarlierOf(k) : h <= j].npc_mood

\* C1: when every timestamp of the batch parses, the entries are printed in
\* non-decreasing order of parsed instant, and entries of equal instant keep
\* the order their messages had in the input.  The k-th entry is the entry
\* of the k-th message of the sorted list, whose place in the input is pos.
C1_ChronologicalStable ==
    (\A n \in DOMAIN input :
        /\ "timestamp" \in DOMAIN input[n]
        /\ parse_timestamp(input[n].timestamp).ok)
    => \A a, b \in DOMAIN Records :
        /\ Records[a].timestamp = input[messages[a].pos].timestamp
        /\ Records[a].message_text = input[messages[a].pos].text
        /\ Records[a].player_id = input[messages[a].pos].player_id
        /\ a < b =>
            /\ Instant(Records[a].timestamp) <= Instant(Records[b].timestamp)
            /\ Instant(Records[a].timestamp) = Instant(Records[b].timestamp)
                  => messages[a].pos < messages[b].pos

\* Three messages given latest first, two of them at one instant written in
\* two ways: the earliest is printed first and the tie keeps the input order.
C1_Witness ==
    /\ pc = "done"
    /\ Len(Records) = 3
    /\ input[1].timestamp = <<T11, "+01:00">>
    /\ input[2].timestamp = STAMP_10Z
    /\ input[3].timestamp = <<" ", T09, "Z", " ">>
    /\ Records[1].timestamp = input[3].timestamp
    /\ Records[2].timestamp = input[1].timestamp
    /\ Records[3].timestamp = input[2].timestamp

\* C2 as stated: an Angry player's "Sorry, please help" gives Neutral with
\* reason "deescalated".
C2_AsStated ==
    \A k \in DOMAIN Records :
        (Records[k].message_text = TxtSorryHelp /\ MoodBefore(k) = "angry")
        => /\ Records[k].npc_mood = "neutral"
           /\ Records[k].mood_reason = "deescalated"

\* C2 amended: an Angry player's "Sorry, please help" gives Friendly with
\* reason "help_or_question": the text has no insult keyword, and it has the
\* help keywords "please" and "help", whose rule comes before de-escalation.
C2_SorryPleaseHelpIsFriendly ==
    \A k \in DOMAIN Records :
        (Records[k].message_text = TxtSorryHelp /\ MoodBefore(k) = "angry")
        => /\ ~ContainsAny(INSULT_KEYWORDS, Lower(Records[k].message_text))
           /\ Records[k].npc_mood = "friendly"
           /\ Records[k].mood_reason = "help_or_question"

C2_Witness ==
    \E k \in DOMAIN Records :
        /\ Records[k].message_text = TxtSorryHelp
        /\ MoodBefore(k) = "angry"
        /\ Records[k].npc_mood = "friendly"

\* C3: every (mood, text) gets exactly one of the four outcomes, the first
\* rule that matches deciding it: an insult keyword gives (angry,
\* insult_detected) whatever the mood and whatever else the text holds; else
\* a help keyword or a final "?" gives (friendly, help_or_question); else an
\* angry mood with a de-escalation word gives (neutral, deescalated); else
\* the mood stays, with reason no_change.
C3_FirstMatchPrecedence ==
    \A k \in DOMAIN Records :
        LET t == Lower(Records[k].message_text)
            before == MoodBefore(k)
            out == <<Records[k].npc_mood, Records[k].mood_reason>>
            insult == ContainsAny(INSULT_KEYWORDS, t)
            help == ContainsAny(HELP_KEYWORDS, t) \/ EndsWith(t, "?")
            calm == before = "angry" /\ ContainsAny(DEESCALATE_WORDS, t)
        IN  /\ out \in { <<"angry", "insult_detected">>,
                         <<"friendly", "help_or_question">>,
                         <<"neutral", "deescalated">>,
                         <<before, "no_change">> }
            /\ insult => out = <<"angry", "insult_detected">>
            /\ (~insult /\ help) => out = <<"friendly", "help_or_question">>
            /\ (~insult /\ ~help /\ calm) => out = <<"neutral", "deescalated">>
            /\ (~insult /\ ~help /\ ~calm) => out = <<before, "no_change">>

\* An angry player sends an insult together with an apology.
C3_Witness ==
    \E k \in DOMAIN Records :
        /\ Records[k].message_text = TxtSorryIdiot
        /\ MoodBefore(k) = "angry"
        /\ Records[k].mood_reason = "insult_detected"

\* The messages whose text has been appended to a history so far.
Appended == IF pc \in {"mood", "reply", "append"} THEN i - 1 ELSE i

\* The texts of player p among the first n messages taken, in that order.
TextsOf(p, n) ==
    LET By(m) == m.player_id = p
        taken == SelectSeq(SubSeq(messages, 1, n), By)
    IN  [k \in DOMAIN taken |-> taken[k].text]

\* C4: a player's history never holds more than 3 texts, and once 3 or more
\* of the player's messages have been processed it is exactly the texts of
\* the player's last 3 messages, oldest first.
C4_HistoryIsLastThree ==
    \A p \in DOMAIN player_states :
        LET hist == player_states[p].last_messages
            said == TextsOf(p, Appended)
        IN  /\ Len(hist) <= 3
            /\ Len(said) >= 3 => hist = SubSeq(said, Len(said) - 2, Len(said))

\* A fourth message evicts the player's first.
C4_Witness ==
    \E p \in DOMAIN player_states :
        /\ TextsOf(p, Appended) = <<TxtIdiot, TxtSorry, TxtHello, TxtIdiot>>
        /\ player_states[p].last_messages = <<TxtSorry, TxtHello, TxtIdiot>>

\* The history turn of a request to the service.
HistoryOf(request) ==
    IF Len(request.messages) = 3 THEN request.messages[2].context ELSE <<>>

\* C5: the context handed to reply generation (to the fallback and, in the
\* request, to the service) and recorded as state_used is made of the
\* player's earlier messages only, the last three of them: the message being
\* answered is not part of it.
C5_ContextExcludesCurrent ==
    /\ \A k \in DOMAIN Records :
          Records[k].state_used = LastN(TextsOf(Records[k].player_id, k - 1), 3)
    /\ \A k \in DOMAIN requests :
          HistoryOf(requests[k]) = LastN(TextsOf(messages[k].player_id, k - 1), 3)
    /\ pc = "reply" => context = LastN(TextsOf(msg.player_id, i - 1), 3)

\* A player's second message is answered with the first as its context.
C5_Witness ==
    /\ Len(Records) = 2
    /\ Len(requests) = 2
    /\ Records[2].message_text = TxtSorry
    /\ Records[2].state_used = <<TxtIdiot>>
    /\ HistoryOf(requests[2]) = <<TxtIdiot>>

\* C6: if some message's timestamp does not parse, wherever it stands, the
\* run aborts in the sort: it never completes, no entry is printed or
\* written, and the log file is not even opened.
C6_BadTimestampAborts ==
    (\E n \in DOMAIN input :
        /\ "timestamp" \in DOMAIN input[n]
        /\ ~parse_timestamp(input[n].timestamp).ok)
    => /\ pc \in {"import", "crashed", "main", "load", "sort", "aborted"}
       /\ Records = <<>>
       /\ file = <<>>
       /\ log_handle = "none"

\* The bad timestamp is the last of three messages.
C6_Witness ==
    /\ pc = "aborted"
    /\ Len(input) = 3
    /\ input[1].timestamp = STAMP_10Z
    /\ input[2].timestamp = <<T11, "+01:00">>
    /\ input[3].timestamp = <<"not-a-date">>

\* C7 as stated: if some message lacks a required field, no entry reaches
\* either sink and no player session is created.
C7_MissingFieldAbortsFirst ==
    (\E n \in DOMAIN input : ~HasAllFields(input[n]))
    => /\ Records = <<>>
       /\ file = <<>>
       /\ player_states = NoPlayers

\* C8 as stated, its first half: on every exit of process_messages, normal
\* or by an error, an opened log file has been closed.  (The second half,
\* no write after the close, is not what fails.)
C8_ClosedOnEveryExit ==
    pc \in {"done", "aborted"} => log_handle # "open"

\* The input is one the sort and the loop accept.
WellFormed ==
    /\ \A n \in DOMAIN input : HasAllFields(input[n]) /\ ~KeyFails(input[n])
    /\ Comparable(input)

\* C9: with a client, each message taken causes exactly one request, also
\* when the call raises; the entry of a message whose call raised carries the
\* rule-based reply for the entry's (post-update) mood and the text, tagged
\* "fallback"; and the error aborts nothing: with a well-formed input and no
\* log file to fail, the run never aborts.
C9_RemoteErrorFallsBack ==
    /\ Len(requests) = Len(responses)
    /\ Len(requests) = IF OPENAI_AVAILABLE
                       THEN (IF pc \in {"mood", "reply"} THEN i - 1 ELSE i)
                       ELSE 0
    /\ \A k \in DOMAIN Records :
          (OPENAI_AVAILABLE /\ responses[k].kind = "raise")
          => /\ Records[k].npc_reply =
                    rule_based_reply(Records[k].npc_mood, Records[k].message_text)
             /\ Records[k].model_source = <<"fallback">>
    /\ (OPENAI_AVAILABLE /\ ~log_file /\ WellFormed) => pc # "aborted"

\* The first of two calls raised; the run answered both messages.
C9_Witness ==
    /\ pc = "done"
    /\ Len(Records) = 2
    /\ Len(requests) = 2
    /\ responses[1].kind = "raise"
    /\ Records[1].model_source = <<"fallback">>
    /\ Records[1].npc_reply = REPLY_ANGRY

\* C10 as stated: an answer whose text is empty or only whitespace is
\* treated as a failure: the entry carries the rule-based reply, tagged
\* "fallback".
C10_EmptyAnswerFallsBack ==
    \A k \in DOMAIN Records :
        (/\ OPENAI_AVAILABLE
         /\ responses[k].kind = "text"
         /\ Strip(responses[k].content) = <<>>)
        => /\ Records[k].npc_reply =
                  rule_based_reply(Records[k].npc_mood, Records[k].message_text)
           /\ Records[k].model_source = <<"fallback">>

\* C11: the source tag of every entry names the strategy that produced
\* its reply.  It is one of the two tags; it is "openai" with the model of
\* the request exactly when the call for that message returned a text, and
\* then the reply is that text stripped; it is "fallback" exactly when no
\* call was made or the call gave no text, and then the reply is
\* rule_based_reply of the entry's mood and text.
C11_SourceTagNamesStrategy ==
    \A k \in DOMAIN Records :
        LET answered == OPENAI_AVAILABLE /\ responses[k].kind = "text" IN
        /\ Records[k].model_source \in {<<"fallback">>, <<"openai", model>>}
        /\ answered <=> Records[k].model_source = <<"openai", model>>
        /\ answered =>
              /\ Records[k].npc_reply = Strip(responses[k].content)
              /\ requests[k].model = model
        /\ ~answered <=> Records[k].model_source = <<"fallback">>
        /\ ~answered =>
              Records[k].npc_reply =
                  rule_based_reply(Records[k].npc_mood, Records[k].message_text)

\* One run with an entry of each strategy: the first call fails, the second
\* answers " Hi!\n".
C11_Witness ==
    /\ Len(Records) = 2
    /\ Len(responses) = 2
    /\ responses[1].kind = "none"
    /\ Records[1].model_source = <<"fallback">>
    /\ Records[1].npc_reply = REPLY_ANGRY
    /\ responses[2].content = <<" ", "H", "i", "!", "\n">>
    /\ Records[2].model_source = <<"openai", model>>
    /\ Records[2].npc_reply = <<"H", "i", "!">>

\* The mood a new player has after messages with these texts, in order.
RECURSIVE MoodAfter(_)
MoodAfter(texts) ==
    IF texts = <<>> THEN "neutral"
    ELSE update_mood(texts[Len(texts)],
                     MoodAfter(SubSeq(texts, 1, Len(texts) - 1)))[1]

\* The messages whose mood update has been stored so far.
MoodUpdated == IF pc = "mood" THEN i - 1 ELSE i

\* C12: a player's mood and history are those that the player's own
\* messages, taken in chronological order, produce, whatever other players
\* sent in between and however the input was ordered; so are the mood and
\* the context snapshot of each of the player's entries.  A message of one
\* player therefore changes nothing of another player.
C12_PlayersIndependent ==
    /\ \A p \in DOMAIN player_states :
          /\ player_states[p].mood = MoodAfter(TextsOf(p, MoodUpdated))
          /\ player_states[p].last_messages = LastN(TextsOf(p, Appended), 3)
    /\ \A k \in DOMAIN Records :
          /\ Records[k].npc_mood = MoodAfter(TextsOf(Records[k].player_id, k))
          /\ Records[k].state_used =
                 LastN(TextsOf(Records[k].player_id, k - 1), 3)

\* Player 1's insult is last in the input and earliest in time; player 2's
\* insult comes between it and player 1's apology, which still de-escalates,
\* and player 2 ends angry.
C12_Witness ==
    /\ pc = "done"
    /\ input = <<Msg(2, TxtIdiot, STAMP_10Z), Msg(1, TxtSorry, STAMP_10Z),
                 Msg(1, TxtIdiot, <<T09, "Z">>)>>
    /\ Records[1].player_id = 1
    /\ Records[2].player_id = 2
    /\ Records[3].player_id = 1
    /\ Records[3].mood_reason = "deescalated"
    /\ Records[3].state_used = <<TxtIdiot>>
    /\ player_states[1].mood = "neutral"
    /\ player_states[2].mood = "angry"

IsNotice(line) == line = NOTICE

\* No usable remote service: the packages or the key are missing.
NotConfigured == ~environment.openai_installed \/ ~environment.api_key

\* C13 as stated: without a usable remote service, the run has, once it is
\* past the start of main, announced the fallback mode exactly once and
\* before any entry, it sends no request, and every entry carries the
\* rule-based reply tagged "fallback".
C13_DegradedModeAnnounced ==
    (NotConfigured /\ pc \notin {"import", "main"})
    => /\ console # <<>>
       /\ console[1] = NOTICE
       /\ Len(SelectSeq(console, IsNotice)) = 1
       /\ requests = <<>>
       /\ \A k \in DOMAIN Records :
             /\ Records[k].model_source = <<"fallback">>
             /\ Records[k].npc_reply =
                    rule_based_reply(Records[k].npc_mood, Records[k].message_text)

\* C14: rule_based_reply returns, for every mood and every text, one of
\* the six fixed replies, none of them empty, chosen by the table: angry
\* with "sorry"; angry otherwise; friendly with one of "where", "go",
\* "quest"; friendly otherwise; any other mood with one of the three words;
\* any other mood otherwise.  The words are looked for in the lower-cased
\* text.
C14_ReplyTable ==
    pc = "returned" =>
        LET mood == player_states[msg.player_id].mood
            t == Lower(msg.text)
            sorry == Contains(<<"s", "o", "r", "r", "y">>, t)
            directions ==
                \/ Contains(<<"w", "h", "e", "r", "e">>, t)
                \/ Contains(<<"g", "o">>, t)
                \/ Contains(<<"q", "u", "e", "s", "t">>, t)
        IN  /\ reply # <<>>
            /\ Cardinality({REPLY_ANGRY_SORRY, REPLY_ANGRY,
                            REPLY_FRIENDLY_DIRECTIONS, REPLY_FRIENDLY,
                            REPLY_NEUTRAL_DIRECTIONS, REPLY_NEUTRAL}) = 6
            /\ (mood = "angry" /\ sorry) => reply = REPLY_ANGRY_SORRY
            /\ (mood = "angry" /\ ~sorry) => reply = REPLY_ANGRY
            /\ (mood = "friendly" /\ directions)
                  => reply = REPLY_FRIENDLY_DIRECTIONS
            /\ (mood = "friendly" /\ ~directions) => reply = REPLY_FRIENDLY
            /\ (mood \notin {"angry", "friendly"} /\ directions)
                  => reply = REPLY_NEUTRAL_DIRECTIONS
            /\ (mood \notin {"angry", "friendly"} /\ ~directions)
                  => reply = REPLY_NEUTRAL

\* A mood that is none of the three, with a capitalised direction word.
C14_Witness ==
    /\ pc = "returned"
    /\ player_states[1].mood = "grumpy"
    /\ msg.text = TxtWhere
    /\ reply = REPLY_NEUTRAL_DIRECTIONS

\* C15: within one message the steps come in this order: the context
\* snapshot, the mood update from the player's mood before the message, the
\* reply, the append.  So: when the mood is about to be updated the snapshot
\* is already the history and the mood is still the old one; when the reply
\* is about to be generated the mood is the updated one and the text is not
\* yet in the history; the reply (the fallback's, or the request sent) is
\* made with the updated mood and the snapshot, still before the append; and
\* the entry's npc_mood is the updated mood and its state_used the history
\* before the append.
C15_StepOrder ==
    /\ pc \in {"mood", "reply", "append", "print"} =>
          LET p == msg.player_id
              earlier == TextsOf(p, i - 1)
              old == MoodAfter(earlier)
              new == update_mood(msg.text, old)
              state == player_states[p]
          IN  /\ context = LastN(earlier, 3)
              /\ pc = "mood" =>
                    /\ state.mood = old
                    /\ state.last_messages = LastN(earlier, 3)
              /\ pc = "reply" =>
                    /\ state.mood = new[1]
                    /\ reason = new[2]
                    /\ state.last_messages = LastN(earlier, 3)
              /\ pc = "append" =>
                    /\ state.mood = new[1]
                    /\ state.last_messages = LastN(earlier, 3)
                    /\ source = <<"fallback">>
                          => reply = rule_based_reply(new[1], msg.text)
                    /\ OPENAI_AVAILABLE =>
                          /\ requests[i].messages[1].mood = new[1]
                          /\ HistoryOf(requests[i]) = LastN(earlier, 3)
              /\ pc = "print" =>
                    /\ state.mood = new[1]
                    /\ state.last_messages = LastN(Append(earlier, msg.text), 3)
    /\ \A k \in DOMAIN Records :
          LET new == update_mood(Records[k].message_text, MoodBefore(k)) IN
          /\ Records[k].npc_mood = new[1]
          /\ Records[k].mood_reason = new[2]
          /\ Records[k].state_used =
                 LastN(TextsOf(Records[k].player_id, k - 1), 3)

\* An angry player apologises: the entry has the calmed mood, the reply is
\* the one for that mood and not the one for an angry mood, and the context
\* is the insult alone.
C15_Witness ==
    \E k \in DOMAIN Records :
        /\ MoodBefore(k) = "angry"
        /\ Records[k].message_text = TxtSorry
        /\ Records[k].npc_mood = "neutral"
        /\ Records[k].npc_reply = REPLY_NEUTRAL
        /\ Records[k].state_used = <<TxtIdiot>>

\* The messages whose entry has been printed so far.
Printed == IF pc \in {"mood", "reply", "append", "print"} THEN i - 1 ELSE i

\* C16: with a log file, every message taken gets exactly one entry,
\* printed first and written second: the printed entries are one per message
\* in processing order, the file holds a prefix of them that is at most one
\* entry short, and when a run over N well-formed messages ends normally the
\* console and the file hold the same N entries in the same order.
C16_ConsoleThenFile ==
    log_file =>
        /\ Len(Records) = Printed
        /\ \A k \in DOMAIN Records :
              /\ Records[k].player_id = messages[k].player_id
              /\ Records[k].message_text = messages[k].text
              /\ Records[k].timestamp = messages[k].timestamp
        /\ Len(file) <= Len(Records)
        /\ Len(Records) <= Len(file) + 1
        /\ file = SubSeq(Records, 1, Len(file))
        /\ (pc = "done" /\ WellFormed) =>
              /\ file = Records
              /\ Len(file) = Len(input)

\* A run of three messages ended normally with both sinks filled.
C16_Witness ==
    /\ log_file
    /\ pc = "done"
    /\ log_handle = "closed"
    /\ Len(input) = 3
    /\ Len(file) = 3
    /\ file = Records

\* C17: an entry with reason "deescalated" belongs to a message whose
\* player has an earlier entry in the run, the latest of which has mood
\* "angry"; its own mood is "neutral".  A player's first entry never has
\* that reason.
C17_DeescalatedFollowsAngry ==
    \A k \in DOMAIN Records :
        Records[k].mood_reason = "deescalated" =>
            /\ EarlierOf(k) # {}
            /\ \E j \in EarlierOf(k) :
                  /\ \A h \in EarlierOf(k) : h <= j
                  /\ Records[j].npc_mood = "angry"
            /\ Records[k].npc_mood = "neutral"

\* Another player's entry stands between the angry entry and the
\* de-escalated one.
C17_Witness ==
    /\ Len(Records) = 3
    /\ Records[1].player_id = 1
    /\ Records[1].npc_mood = "angry"
    /\ Records[2].player_id = 2
    /\ Records[3].player_id = 1
    /\ Records[3].mood_reason = "deescalated"
    /\ Records[3].npc_mood = "neutral"

\* C18: the fallback's placating reply for an angry mood goes only to texts
\* that hold an insult keyword: a text with "sorry" and no insult keyword
\* never leaves the mood angry, so it never gets that reply.
C18_PlacatingReplyNeedsInsult ==
    \A k \in DOMAIN Records :
        LET t == Lower(Records[k].message_text)
            insult == ContainsAny(INSULT_KEYWORDS, t)
            rule_based == Records[k].model_source = <<"fallback">>
        IN  /\ (rule_based /\ Records[k].npc_reply = REPLY_ANGRY_SORRY) => insult
            /\ (Contains(SORRY, t) /\ ~insult) =>
                  /\ Records[k].npc_mood # "angry"
                  /\ rule_based => Records[k].npc_reply # REPLY_ANGRY_SORRY

\* An apology with an insult gets the placating reply.
C18_Witness ==
    \E k \in DOMAIN Records :
        /\ Records[k].message_text = TxtSorryIdiot
        /\ Records[k].model_source = <<"fallback">>
        /\ Records[k].npc_mood = "angry"
        /\ Records[k].npc_reply = REPLY_ANGRY_SORRY

=============================================================================
